---- MODULE Spec2Model ----
(***************************************************************************)
(* Model of the two analysis pages of b2b-survival-analysis:                *)
(*   src/app/pages/survival_analysis.py  (plot_winning_rate,                *)
(*                                        plot_conditional_winning_rate)    *)
(*   src/app/pipeline_app.py             (build_product_plot,               *)
(*                                        simulate_futures)                 *)
(*                                                                          *)
(* Floating point values are modelled as exact rationals [n, d] in lowest   *)
(* terms with d > 0; the non-finite float64 values are the records with     *)
(* d = 0: nan = 0/0, +inf = 1/0, -inf = -1/0. The values of sqrt, log and   *)
(* exp, which the confidence band needs, are rationals of four decimals.    *)
(***************************************************************************)
EXTENDS Integers, Sequences, FiniteSets

VARIABLES
    df,             \* the input table of the survival page: rows (ProductId, SQLDate, WonDate)
    fits,           \* per cohort the latest call reached: T, E of datetimes_to_durations, the fitted kmf
    values_df,      \* what plot_winning_rate returned (or the exception it raised)
    cond_value_df,  \* what plot_conditional_winning_rate returned (or the exception it raised)
    k_weeks,        \* the look-ahead passed to plot_conditional_winning_rate
    deals,          \* the input table of the pipeline page: rows (product, deal_size)
    rng,            \* the state of numpy's global random generator
    ncalls,         \* calls of build_product_plot and simulate_futures made so far in this process
    last,           \* the latest call of simulate_futures: its arguments and its outcome
    figures,        \* pyplot's figures by number: the labels of the histograms drawn on each
    plot_call       \* the latest call of build_product_plot or simulate_futures: figure id, options, outcome

survival_vars == <<df, fits, values_df, cond_value_df, k_weeks>>
pipeline_vars == <<deals, rng, ncalls, last, figures, plot_call>>
vars == <<df, fits, values_df, cond_value_df, k_weeks, deals, rng, ncalls, last, figures, plot_call>>

-----------------------------------------------------------------------------
(* Bounds of the model                                                      *)

MaxRows == 3        \* rows of an input table
MaxK == 2           \* look-ahead values range over -MaxK .. MaxK
MaxLen == 4         \* points of a survival curve given directly
MaxM == 2           \* deals_we_close ranges over -1 .. MaxM
MaxR == 2           \* n_futures ranges over -1 .. MaxR
MaxCalls == 2       \* calls of build_product_plot and simulate_futures in one process

-----------------------------------------------------------------------------
(* float64 arithmetic on rationals                                          *)

Abs(a) == IF a < 0 THEN 0 - a ELSE a

RECURSIVE GCD(_, _)
GCD(a, b) == IF b = 0 THEN a ELSE GCD(b, a % b)

Sign(a) == IF a > 0 THEN 1 ELSE IF a < 0 THEN 0 - 1 ELSE 0

\* n/d as a float: lowest terms, positive denominator; x/0 is inf, -inf or nan
Rat(n, d) ==
    IF d = 0 THEN [n |-> Sign(n), d |-> 0]
    ELSE LET g == GCD(Abs(n), Abs(d))
             s == Sign(d)
         IN  [n |-> (s * n) \div g, d |-> (s * d) \div g]

Zero == Rat(0, 1)
One == Rat(1, 1)
NaN == Rat(0, 0)

IsFinite(a) == a.d # 0
IsNaN(a) == a.d = 0 /\ a.n = 0

\* a <= b on floats (any comparison with nan is false)
Leq(a, b) ==
    IF IsNaN(a) \/ IsNaN(b) THEN FALSE
    ELSE IF ~IsFinite(a) THEN a.n < 0 \/ a = b
    ELSE IF ~IsFinite(b) THEN b.n > 0
    ELSE a.n * b.d <= b.n * a.d

\* a * b on finite floats
Mul(a, b) == Rat(a.n * b.n, a.d * b.d)

\* a + b on finite floats
Add(a, b) == Rat(a.n * b.d + b.n * a.d, a.d * b.d)

\* numpy.float64 true division a / b: no exception, 0/0 = nan, x/0 = +-inf
Div(a, b) ==
    IF IsNaN(a) \/ IsNaN(b) THEN NaN
    ELSE IF ~IsFinite(a) THEN (IF IsFinite(b) THEN Rat(a.n * (IF b.n < 0 THEN 0 - 1 ELSE 1), 0) ELSE NaN)
    ELSE IF ~IsFinite(b) THEN Zero
    ELSE IF b.n = 0 THEN Rat(a.n, 0)
    ELSE Rat(a.n * b.d, a.d * b.n)

\* 1 - a
OneMinus(a) ==
    IF IsFinite(a) THEN Rat(a.d - a.n, a.d) ELSE Rat(0 - a.n, 0)

\* The values of sqrt, log and exp are kept to four decimals: a non-negative number is the
\* integer count of its units of 1/FScale.
FScale == 10000

FromRat(a) == (a.n * FScale) \div a.d
ToRat(x) == Rat(x, FScale)

FMul(a, b) ==
    (a \div FScale) * b + (a % FScale) * (b \div FScale) + ((a % FScale) * (b % FScale)) \div FScale

FDiv(a, b) == (a * FScale) \div b

RECURSIVE Newton(_, _)
Newton(x, n) == LET y == (x + n \div x) \div 2 IN IF y >= x THEN x ELSE Newton(y, n)

\* np.sqrt
FSqrt(a) == IF a = 0 THEN 0 ELSE Newton(a * FScale, a * FScale)

RECURSIVE AtanhSeries(_, _, _)
AtanhSeries(t2, term, k) ==
    IF term = 0 THEN 0 ELSE (term + k \div 2) \div k + AtanhSeries(t2, FMul(term, t2), k + 2)

\* -np.log(s) for a float 0 < s < 1, as 2 atanh((1 - s) / (1 + s))
FNegLog(s) ==
    LET t == ((s.d - s.n) * FScale) \div (s.d + s.n)
    IN  2 * AtanhSeries(FMul(t, t), t, 1)

RECURSIVE ExpSeries(_, _, _)
ExpSeries(x, term, k) ==
    IF term = 0 THEN 0 ELSE term + ExpSeries(x, FMul(term, x) \div k, k + 1)

\* np.exp(x) for x >= 0
FExp(x) == ExpSeries(x, FScale, 1)

\* np.exp(-x) for x >= 0; below exp(-12) the value is 0 to four decimals
FExpNeg(x) == IF x > 12 * FScale THEN 0 ELSE FDiv(FScale, FExp(x))

-----------------------------------------------------------------------------
(* Sequences and Python lists                                               *)

SetMin(S) == CHOOSE m \in S : \A x \in S : m <= x

RECURSIVE SortSet(_)
SortSet(S) == IF S = {} THEN <<>> ELSE <<SetMin(S)>> \o SortSet(S \ {SetMin(S)})

PyMin(a, b) == IF a <= b THEN a ELSE b

\* Python list indexing seq[j] with a 0-based j: a negative j counts from the end
PyIndexOk(seq, j) == j < Len(seq) /\ j >= 0 - Len(seq)
PyIndex(seq, j) == IF j >= 0 THEN seq[j + 1] ELSE seq[Len(seq) + j + 1]

RECURSIVE Concat(_)
Concat(ss) == IF ss = <<>> THEN <<>> ELSE Head(ss) \o Concat(Tail(ss))

-----------------------------------------------------------------------------
(* The input table                                                          *)

ProductIds == {"p1", "p2", "nan"}       \* "nan": an empty ProductId cell read by pandas
\* dates are day numbers. The deals of a product: won after 1 week, won after 3 weeks, still
\* open, opened on day 16 and won within the week, opened on day 16 with a WonDate in the
\* future, opened on day 16 with an earlier WonDate
Won(p, sql, won) == [ProductId |-> p, SQLDate |-> sql, WonDate |-> won, WonIsNull |-> FALSE]
Open(p, sql) == [ProductId |-> p, SQLDate |-> sql, WonDate |-> 0, WonIsNull |-> TRUE]

Rows ==
    { Won("p1", 0, 7), Won("p1", 0, 21), Open("p1", 0),
      Won("p1", 16, 21), Won("p1", 16, 30), Won("p1", 16, 7),
      Won("p2", 0, 7), Won("p2", 0, 21), Open("p2", 0),
      Won("nan", 0, 7) }

ProductRank(p) == IF p = "p1" THEN 0 ELSE IF p = "p2" THEN 1 ELSE 2
RowRank(r) == r.SQLDate * 1000 + (IF r.WonIsNull THEN 0 ELSE r.WonDate) * 10 + ProductRank(r.ProductId)

\* the tables of at most MaxRows rows, one for each multiset of rows
Tables ==
    UNION { { t \in [1..n -> Rows] : \A i \in 1..(n - 1) : RowRank(t[i]) <= RowRank(t[i + 1]) } : n \in 0..MaxRows }

\* ==, as pandas compares a column with a value: nan equals nothing
PdEq(a, b) == a # "nan" /\ b # "nan" /\ a = b

\* list(df['ProductId'].unique()): first appearances, all nan cells being one value
RECURSIVE Unique(_)
Unique(col) ==
    IF col = <<>> THEN <<>>
    ELSE LET init == SubSeq(col, 1, Len(col) - 1)
             v == col[Len(col)]
         IN  IF \E i \in 1..Len(init) : init[i] = v THEN Unique(init)
             ELSE Append(Unique(init), v)

ProductColumn(table) == [i \in 1..Len(table) |-> table[i].ProductId]

\* df.loc[df['ProductId'] == product]
CohortRows(table, product) == SelectSeq(table, LAMBDA r : PdEq(r.ProductId, product))

-----------------------------------------------------------------------------
(* lifelines.utils.datetimes_to_durations(start, end, freq='W')             *)

fill_date == 22         \* datetime.today(), the default fill_date
DaysPerWeek == 7        \* freq='W'

\* C: the end date is present and not after fill_date
EventObserved(r) == ~r.WonIsNull /\ ~(r.WonDate > fill_date)

\* T: (end - start) in whole weeks, a missing end being fill_date; the cast to
\* timedelta64[W] rounds towards minus infinity
Duration(r) ==
    LET end == IF r.WonIsNull THEN fill_date ELSE r.WonDate
    IN  (end - r.SQLDate) \div DaysPerWeek

DurationsT(cnt) == [i \in 1..Len(cnt) |-> Duration(cnt[i])]
DurationsE(cnt) == [i \in 1..Len(cnt) |-> EventObserved(cnt[i])]

-----------------------------------------------------------------------------
(* lifelines.KaplanMeierFitter().fit(T, E)                                  *)

SeqRange(s) == {s[i] : i \in 1..Len(s)}

\* the index of survival_function_: the distinct durations and the birth time min(0, min T)
Timeline(T) == SortSet(SeqRange(T) \cup {PyMin(0, SetMin(SeqRange(T)))})

AtRisk(T, t) == Cardinality({i \in 1..Len(T) : T[i] >= t})
Observed(T, E, t) == Cardinality({i \in 1..Len(T) : T[i] = t /\ E[i]})

\* the factor with the sign of d/n flipped
KMFactorPlus(T, E, t) == Rat(AtRisk(T, t) + Observed(T, E, t), AtRisk(T, t))

\* the factor 1 - d/n of the event time t
KMFactor(T, E, t) == Rat(AtRisk(T, t) - Observed(T, E, t), AtRisk(T, t))

RECURSIVE KMProduct(_, _, _, _)
KMProduct(T, E, tl, j) ==
    IF j = 0 THEN One ELSE Mul(KMProduct(T, E, tl, j - 1), KMFactor(T, E, tl[j]))

\* kmf.survival_function_.values[:, 0]
SurvivalFunction(T, E) ==
    LET tl == Timeline(T) IN [j \in 1..Len(tl) |-> KMProduct(T, E, tl, j)]

\* fit raises ValueError on an empty T
FitRaises(T) == T = <<>>

\* lines 74-76 / 148-150 for one product
FitCohort(table, product) ==
    LET cnt == CohortRows(table, product)
        T == DurationsT(cnt)
        E == DurationsE(cnt)
    IN  IF FitRaises(T)
        THEN [product |-> product, cnt |-> cnt, T |-> T, E |-> E, raised |-> TRUE,
              timeline |-> <<>>, S |-> <<>>]
        ELSE [product |-> product, cnt |-> cnt, T |-> T, E |-> E, raised |-> FALSE,
              timeline |-> Timeline(T), S |-> SurvivalFunction(T, E)]

-----------------------------------------------------------------------------
(* Results of a call                                                        *)

NotCalled == [status |-> "none", rows |-> <<>>]
Raised(e) == [status |-> e, rows |-> <<>>]
Returned(rows) == [status |-> "ok", rows |-> rows]

\* a concatenation that gives an empty frame when there is nothing to concatenate
PdConcatOfNothingIsEmpty(frames) == Returned(Concat(frames))

\* pd.concat(values_dfs, ignore_index=True): ValueError when there is nothing to concatenate
PdConcat(frames) == IF frames = <<>> THEN Raised("ValueError") ELSE Returned(Concat(frames))

-----------------------------------------------------------------------------
(* plot_winning_rate                                                        *)

\* the summand d / (n (n - d)) of the estimator's cumulative variance, an infinite summand
\* (n = d) being replaced by 0
VarTerm(T, E, t) ==
    IF AtRisk(T, t) = Observed(T, E, t) THEN Zero
    ELSE Rat(Observed(T, E, t), AtRisk(T, t) * (AtRisk(T, t) - Observed(T, E, t)))

RECURSIVE CumulativeSq(_, _, _, _)
CumulativeSq(T, E, tl, j) ==
    IF j = 0 THEN Zero ELSE Add(CumulativeSq(T, E, tl, j - 1), VarTerm(T, E, tl[j]))

\* inv_normal_cdf(1 - alpha / 2) for alpha = 0.05, in units of 1/FScale
ZScore == 19600

\* the exponential Greenwood band at an estimate 0 < s < 1 with cumulative variance c:
\* exp(-exp(log(-v) -+ z sqrt(c) / v)) with v = log(s), that is s ^ theta and s ^ (1 / theta)
\* for theta = exp(z sqrt(c) / -v)
Greenwood(s, c) ==
    LET L == FNegLog(s)
        theta == FExp(FDiv(FMul(ZScore, FSqrt(FromRat(c))), L))
    IN  [lower |-> ToRat(FExpNeg(FMul(theta, L))), upper |-> ToRat(FExpNeg(FDiv(L, theta)))]

\* At an estimate of 0 the band depends on the installed estimator: one that replaces the
\* infinite variance summand by 0 gives (0, 0); one that keeps it gives a blank band, filled
\* with 1 like every blank band.
EdgeBands == {"zero", "filled"}

\* row j of kmf.confidence_interval_: blank at an estimate of 1 (log(-v) is -inf and
\* sqrt(c) / v is nan) and wherever a logarithm has no value, and blanks are filled with 1
ConfidenceInterval(fit, j, edge) ==
    IF fit.S[j] = Zero
    THEN (IF edge = "zero" THEN [lower |-> Zero, upper |-> Zero] ELSE [lower |-> One, upper |-> One])
    ELSE IF Leq(One, fit.S[j]) \/ ~Leq(Zero, fit.S[j]) THEN [lower |-> One, upper |-> One]
    ELSE Greenwood(fit.S[j], CumulativeSq(fit.T, fit.E, fit.timeline, j))

\* lines 77-91: the rows of p_df for one fitted product
WinningFrame(fit, edge) ==
    [i \in 1..Len(fit.S) |->
        [x |-> i - 1,
         y |-> OneMinus(fit.S[i]),
         y_mix |-> OneMinus(ConfidenceInterval(fit, i, edge).lower),
         y_max |-> OneMinus(ConfidenceInterval(fit, i, edge).upper),
         product |-> fit.product]]

AllFits(table) ==
    LET products == Unique(ProductColumn(table))
    IN  [i \in 1..Len(products) |-> FitCohort(table, products[i])]

\* the iterations the loop starts: those up to the first one that raises
Started(all, bad) == IF bad = {} THEN all ELSE SubSeq(all, 1, SetMin(bad))

WinningBad(all) == {i \in 1..Len(all) : all[i].raised}

\* lines 67-96
\* lines 72-96 given the fit of every product: the first fit that raises ends the call
WinningResult(all, edge) ==
    IF WinningBad(all) # {} THEN Raised("ValueError")
    ELSE PdConcat([i \in 1..Len(all) |-> WinningFrame(all[i], edge)])

plot_winning_rate(table, edge) == WinningResult(AllFits(table), edge)

-----------------------------------------------------------------------------
(* plot_conditional_winning_rate                                            *)

\* line 153 raises IndexError when some idx + k_weeks is below -len(all_vals)
CondRaises(all_vals, k) ==
    \E idx \in 0..(Len(all_vals) - 1) :
        ~PyIndexOk(all_vals, PyMin(idx + k, Len(all_vals) - 1))

\* a look-ahead that is one position too far
LookAheadOffByOne(idx, k, max_weeks) == PyMin(idx + k + 1, max_weeks - 1)

\* the look-ahead position of line 153 and line 162
LookAhead(idx, k, max_weeks) == PyMin(idx + k, max_weeks - 1)

\* lines 151-154: y for one index
CondValue(all_vals, idx, k) ==
    OneMinus(Div(PyIndex(all_vals, LookAhead(idx, k, Len(all_vals))), PyIndex(all_vals, idx)))

\* lines 151-163: the rows of p_df for one fitted product
CondFrame(product, all_vals, k) ==
    [i \in 1..Len(all_vals) |->
        [x |-> i - 1,
         y |-> CondValue(all_vals, i - 1, k),
         look_ahead |-> LookAhead(i - 1, k, Len(all_vals)),
         product |-> product]]

CondBad(all, k) == {i \in 1..Len(all) : all[i].raised \/ CondRaises(all[i].S, k)}

\* lines 146-168 given the fit of every product: the first iteration that raises
\* decides the exception (ValueError from fit, IndexError from line 153)
CondResult(all, k) ==
    LET bad == CondBad(all, k)
    IN  IF bad # {}
        THEN (IF all[SetMin(bad)].raised THEN Raised("ValueError") ELSE Raised("IndexError"))
        ELSE PdConcat([i \in 1..Len(all) |-> CondFrame(all[i].product, all[i].S, k)])

\* lines 141-168
plot_conditional_winning_rate(table, k) == CondResult(AllFits(table), k)

-----------------------------------------------------------------------------
(* The survival page: calls of the two functions on an input table          *)

\* the look-ahead the page passes when nothing is typed (line 132)
DefaultLookAhead == 8

\* int(k_weeks) of line 171: the integers typed
KRange == ((0 - MaxK)..MaxK) \cup {DefaultLookAhead}

NoCall == [called |-> FALSE, options |-> <<>>, deals_we_close |-> 0, n_futures |-> 0,
           status |-> "none", sets |-> <<>>]

\* the figure numbers the page passes on its sample data: 0 to build_product_plot (line 155),
\* 1 to simulate_futures (line 213); it passes the same numbers again on every rerun
ProductPlotIds == {0}
FuturesPlotIds == {1}
FigureIds == ProductPlotIds \cup FuturesPlotIds

\* pyplot before any call: no figure holds a histogram
NoFigures == [i \in FigureIds |-> <<>>]

NoPlotCall == [fn |-> "none", id |-> 0, options |-> <<>>, status |-> "none"]

PipelineIdle ==
    /\ deals = <<>>
    /\ rng = 0
    /\ ncalls = 0
    /\ last = NoCall
    /\ figures = NoFigures
    /\ plot_call = NoPlotCall

Init ==
    /\ df \in Tables
    /\ fits = <<>>
    /\ values_df = NotCalled
    /\ cond_value_df = NotCalled
    /\ k_weeks = 0
    /\ PipelineIdle

\* line 98 (and line 214): the call of a run of the page script, and of every rerun
PlotWinningRate(edge) ==
    /\ \E all \in {AllFits(df)} :
           /\ fits' = Started(all, WinningBad(all))
           /\ values_df' = WinningResult(all, edge)
    /\ UNCHANGED <<df, cond_value_df, k_weeks>>
    /\ UNCHANGED pipeline_vars

\* line 171 (and line 223): the call that follows in the script, with the look-ahead typed
PlotConditionalWinningRate(k) ==
    /\ \E all \in {AllFits(df)} :
           /\ fits' = Started(all, CondBad(all, k))
           /\ cond_value_df' = CondResult(all, k)
    /\ k_weeks' = k
    /\ UNCHANGED <<df, values_df>>
    /\ UNCHANGED pipeline_vars

Next ==
    \/ \E edge \in EdgeBands : PlotWinningRate(edge)
    \/ \E k \in KRange : PlotConditionalWinningRate(k)

Spec == Init /\ [][Next]_vars

-----------------------------------------------------------------------------
(* The conditional transform of lines 151-168 on a survival curve given     *)
(* directly as the fitted kmf of one product                                *)

CurveValues == {Rat(0, 1), Rat(3, 5), Rat(4, 5), Rat(1, 1)}

\* the non-increasing curves of 1 .. MaxLen points
Curves ==
    UNION { { c \in [1..n -> CurveValues] : \A i \in 1..(n - 1) : Leq(c[i + 1], c[i]) } : n \in 1..MaxLen }

GivenFit(c) ==
    [product |-> "p1", cnt |-> <<>>, T |-> <<>>, E |-> <<>>, raised |-> FALSE,
     timeline |-> [i \in 1..Len(c) |-> i - 1], S |-> c]

InitCurve ==
    /\ df = <<>>
    /\ fits \in { <<GivenFit(c)>> : c \in Curves }
    /\ values_df = NotCalled
    /\ cond_value_df = NotCalled
    /\ k_weeks = 0
    /\ PipelineIdle

ConditionalTransform(k) ==
    /\ k_weeks' = k
    /\ cond_value_df' = CondResult(fits, k)
    /\ UNCHANGED <<df, fits, values_df>>
    /\ UNCHANGED pipeline_vars

NextCurve == \E k \in KRange : ConditionalTransform(k)

SpecConditional == InitCurve /\ [][NextCurve]_vars

-----------------------------------------------------------------------------
(* The pipeline page: simulate_futures                                      *)

Deal(p, v) == [product |-> p, deal_size |-> v]

\* input tables: two products, one product, no rows
DealTables ==
    { <<Deal("a", 10), Deal("b", 100), Deal("a", 20), Deal("a", 30)>>,
      <<Deal("a", 10), Deal("a", 20)>>,
      <<>> }

OptionLists == { <<>>, <<"a">>, <<"b">>, <<"a", "b">> }

\* the deal sizes of every product, not of o alone
CntDistsAllProducts(table, o) == [i \in 1..Len(table) |-> table[i].deal_size]

\* list(df.loc[df['product'] == o]['deal_size'])
CntDists(table, o) ==
    LET rows == SelectSeq(table, LAMBDA r : r.product = o)
    IN  [i \in 1..Len(rows) |-> rows[i].deal_size]

\* numpy's global generator: a deterministic stream of raw draws, the state being the
\* position in it. The stream is cyclic and holds every pair of raw values 0..2.
RngOutput == <<0, 0, 1, 0, 2, 1, 1, 2, 2>>
RngStates == 0..(Len(RngOutput) - 1)
RngAdvance(g, n) == (g + n) % Len(RngOutput)

\* one draw of np.random.choice(cnt_dists, replace=True) in generator state g
ChoiceDraw(V, g) == V[(RngOutput[g + 1] % Len(V)) + 1]

\* sum(np.random.choice(cnt_dists, size=m, replace=True)) from generator state g
RECURSIVE ChoiceSum(_, _, _)
ChoiceSum(V, m, g) ==
    IF m = 0 THEN 0 ELSE ChoiceDraw(V, g) + ChoiceSum(V, m - 1, RngAdvance(g, 1))

\* np.random.choice raises ValueError on a negative size, and on an empty list
\* unless no sample is taken
ChoiceRaises(V, m) == m < 0 \/ (V = <<>> /\ m > 0)

\* the draws one np.random.choice(cnt_dists, size=m) takes from the generator: none when
\* the list has a single value (the index is drawn from a range of one)
DrawsPerChoice(V, m) == IF Len(V) > 1 THEN m ELSE 0

\* line 174: the list s, from generator state g
Futures(V, m, R, g) ==
    [n \in 1..R |-> ChoiceSum(V, m, RngAdvance(g, (n - 1) * DrawsPerChoice(V, m)))]

\* the draws line 174 takes from the generator
DrawsTaken(V, m, R) == IF R > 0 THEN R * DrawsPerChoice(V, m) ELSE 0

\* np.percentile(s, 10) of line 176 raises IndexError on an empty s (np.mean gives nan)
PercentileRaises(s) == s = <<>>

\* the labels of the histograms line 178 has drawn for the sets in acc
HistLabels(acc) == [i \in 1..Len(acc) |-> acc[i].product]

\* lines 172-178 from generator state g: the first iteration that raises ends the call
RECURSIVE SimLoop(_, _, _, _, _, _)
SimLoop(table, options, m, R, g, acc) ==
    IF options = <<>> THEN [status |-> "ok", sets |-> acc, rng |-> g, hists |-> HistLabels(acc)]
    ELSE LET o == Head(options)
             V == CntDists(table, o)
         IN  IF R > 0 /\ ChoiceRaises(V, m)
             THEN [status |-> "ValueError", sets |-> <<>>, rng |-> g, hists |-> HistLabels(acc)]
             ELSE IF PercentileRaises(Futures(V, m, R, g))
             THEN [status |-> "IndexError", sets |-> <<>>, rng |-> g, hists |-> HistLabels(acc)]
             ELSE SimLoop(table, Tail(options), m, R, RngAdvance(g, DrawsTaken(V, m, R)),
                          Append(acc, [product |-> o, s |-> Futures(V, m, R, g)]))

\* lines 163-182
simulate_futures(table, options, m, R, g) == SimLoop(table, options, m, R, g, <<>>)

SurvivalIdle ==
    /\ df = <<>>
    /\ fits = <<>>
    /\ values_df = NotCalled
    /\ cond_value_df = NotCalled
    /\ k_weeks = 0

\* the process starts with the generator in the state its seed gives
InitPipeline ==
    /\ deals \in DealTables
    /\ rng \in RngStates
    /\ ncalls = 0
    /\ last = NoCall
    /\ figures = NoFigures
    /\ plot_call = NoPlotCall
    /\ SurvivalIdle

\* plt.figure(id) of lines 140 and 170 makes the figure numbered id the current one, the
\* existing one if pyplot already holds it; plt.hist draws on it, after what it holds
DrawOn(figs, id, labels) == [figs EXCEPT ![id] = @ \o labels]

SimulateFutures(options, id, m, R) ==
    /\ ncalls < MaxCalls
    /\ \E out \in {simulate_futures(deals, options, m, R, rng)} :
           /\ rng' = out.rng
           /\ last' = [called |-> TRUE, options |-> options, deals_we_close |-> m, n_futures |-> R,
                       status |-> out.status, sets |-> out.sets]
           /\ figures' = DrawOn(figures, id, out.hists)
           /\ plot_call' = [fn |-> "simulate_futures", id |-> id, options |-> options,
                            status |-> out.status]
    /\ ncalls' = ncalls + 1
    /\ UNCHANGED deals
    /\ UNCHANGED survival_vars

\* line 143: .apply(list)[0] raises IndexError when the table has no row of product o
GroupRaises(table, o) == CntDists(table, o) = <<>>

\* lines 141-147: the labels of the histograms drawn, up to the first iteration that raises
RECURSIVE PlotLoop(_, _, _)
PlotLoop(table, options, acc) ==
    IF options = <<>> THEN [status |-> "ok", hists |-> acc]
    ELSE IF GroupRaises(table, Head(options)) THEN [status |-> "IndexError", hists |-> acc]
    ELSE PlotLoop(table, Tail(options), Append(acc, Head(options)))

\* lines 139-151
build_product_plot(table, options) == PlotLoop(table, options, <<>>)

BuildProductPlot(options, id) ==
    /\ ncalls < MaxCalls
    /\ \E out \in {build_product_plot(deals, options)} :
           /\ figures' = DrawOn(figures, id, out.hists)
           /\ plot_call' = [fn |-> "build_product_plot", id |-> id, options |-> options,
                            status |-> out.status]
    /\ ncalls' = ncalls + 1
    /\ UNCHANGED <<deals, rng, last>>
    /\ UNCHANGED survival_vars

NextPipeline ==
    \/ \E options \in OptionLists, id \in FuturesPlotIds, m \in (0 - 1)..MaxM, R \in (0 - 1)..MaxR :
            SimulateFutures(options, id, m, R)
    \/ \E options \in OptionLists, id \in ProductPlotIds : BuildProductPlot(options, id)

SpecPipeline == InitPipeline /\ [][NextPipeline]_vars

-----------------------------------------------------------------------------
(* Properties                                                               *)

\* the rows of cond_value_df / values_df that belong to the i-th fitted product
Offset(i) ==
    LET RECURSIVE Sum(_)
        Sum(j) == IF j = 0 THEN 0 ELSE Sum(j - 1) + Len(fits[j].S)
    IN  Sum(i - 1)

TotalPoints ==
    LET RECURSIVE Sum(_)
        Sum(j) == IF j = 0 THEN 0 ELSE Sum(j - 1) + Len(fits[j].S)
    IN  Sum(Len(fits))

CondReturned == cond_value_df.status = "ok"
CondCalled == cond_value_df.status # "none"
WinningCalled == values_df.status # "none"

\* y is a number with (1 - y) * b = a, that is y = 1 - a / b, for b # 0
IsOneMinusRatio(y, a, b) ==
    /\ IsFinite(y)
    /\ (y.d - y.n) * b.n * a.d = y.d * a.n * b.d

InUnitInterval(y) == IsFinite(y) /\ 0 <= y.n /\ y.n <= y.d

\* C1: with a look-ahead k >= 0, the conditional series of a curve S of n >= 1 points
\* has n rows, and the row of index i holds look_ahead = min(i + k, n - 1) and
\* y = 1 - S[min(i + k, n - 1)] / S[i] (wherever S[i] is not 0, so that the ratio exists).
C1_ConditionalSeriesFormula ==
    (CondReturned /\ k_weeks >= 0) =>
        /\ Len(cond_value_df.rows) = TotalPoints
        /\ \A c \in 1..Len(fits) :
            LET S == fits[c].S
                n == Len(S)
            IN  \A i \in 0..(n - 1) :
                    LET row == cond_value_df.rows[Offset(c) + i + 1]
                        target == IF i + k_weeks <= n - 1 THEN i + k_weeks ELSE n - 1
                    IN  /\ row.x = i
                        /\ row.product = fits[c].product
                        /\ row.look_ahead = target
                        /\ S[i + 1].n # 0 => IsOneMinusRatio(row.y, S[target + 1], S[i + 1])

\* Scenario 4: S = [1.0, 0.8, 0.6, 0.6], k = 1 gives [0.2, 0.25, 0.0, 0.0]
C1_Witness ==
    /\ CondReturned
    /\ k_weeks = 1
    /\ Len(fits) = 1
    /\ fits[1].S = <<Rat(1, 1), Rat(4, 5), Rat(3, 5), Rat(3, 5)>>
    /\ [i \in 1..4 |-> cond_value_df.rows[i].y] = <<Rat(1, 5), Rat(1, 4), Rat(0, 1), Rat(0, 1)>>
    /\ [i \in 1..4 |-> cond_value_df.rows[i].look_ahead] = <<1, 2, 3, 3>>

\* C2: with a look-ahead k >= 0, every value of the conditional series is a number in [0, 1]
\* (the survival curves of the estimator are non-increasing with values in [0, 1]).
C2_ConditionalValuesInUnitInterval ==
    (CondReturned /\ k_weeks >= 0) =>
        \A r \in 1..Len(cond_value_df.rows) : InUnitInterval(cond_value_df.rows[r].y)

\* C3: with a look-ahead of 0 the conditional series is 0 at every index.
C3_ZeroLookAheadGivesZero ==
    (CondReturned /\ k_weeks = 0) =>
        \A r \in 1..Len(cond_value_df.rows) : cond_value_df.rows[r].y = Zero

\* C4: plot_conditional_winning_rate fails, returning no series, whenever the look-ahead is
\* negative or there is no curve to transform.
C4_NegativeLookAheadFails ==
    (CondCalled /\ (k_weeks < 0 \/ TotalPoints = 0)) => ~CondReturned

\* the sums of m values of the set V
RECURSIVE SumsOf(_, _)
SumsOf(V, m) == IF m = 0 THEN {0} ELSE {v + t : v \in V, t \in SumsOf(V, m - 1)}

\* the deal sizes of product o in the input table
CohortValues(o) == {deals[i].deal_size : i \in {j \in 1..Len(deals) : deals[j].product = o}}

SimReturned == last.called /\ last.status = "ok"

\* C5: for m > 0 and R > 0, a call that returns has built, for each selected product in
\* turn, exactly R totals, each the sum of exactly m deal sizes of that product.
C5_ValueSampleSets ==
    (SimReturned /\ last.deals_we_close > 0 /\ last.n_futures > 0) =>
        /\ Len(last.sets) = Len(last.options)
        /\ \A c \in 1..Len(last.sets) :
            /\ last.sets[c].product = last.options[c]
            /\ CohortValues(last.options[c]) # {}
            /\ Len(last.sets[c].s) = last.n_futures
            /\ \A n \in 1..Len(last.sets[c].s) :
                last.sets[c].s[n] \in SumsOf(CohortValues(last.options[c]), last.deals_we_close)

\* Scenario 3: V = [10, 20, 30], m = 2, R = 1 gives one total among 20, 30, 40, 50, 60
C5_Witness ==
    /\ SimReturned
    /\ last.options = <<"a">>
    /\ CohortValues("a") = {10, 20, 30}
    /\ last.deals_we_close = 2
    /\ last.n_futures = 1
    /\ Len(last.sets) = 1
    /\ Len(last.sets[1].s) = 1
    /\ last.sets[1].s[1] \in {20, 30, 40, 50, 60}

\* C6: called for at least one product, simulate_futures fails, giving no Value Sample Set,
\* whenever a selected product has no deal sizes, or m <= 0, or R <= 0.
C6_InvalidSimulationFails ==
    (last.called /\ last.options # <<>>
                 /\ (\/ last.deals_we_close <= 0
                     \/ last.n_futures <= 0
                     \/ \E c \in 1..Len(last.options) : CohortValues(last.options[c]) = {}))
        => last.status # "ok"

\* C7: in a process whose generator was seeded once, a call of simulate_futures with the
\* arguments of the call before it returns the Value Sample Sets that call returned.
C7_SameInputsSameSets ==
    [][(/\ SimReturned
        /\ ncalls' = ncalls + 1
        /\ last'.status = "ok"
        /\ last'.options = last.options
        /\ last'.deals_we_close = last.deals_we_close
        /\ last'.n_futures = last.n_futures)
       => last'.sets = last.sets]_vars

\* C8: the survival estimates of every fitted cohort are non-increasing in the index and lie
\* in [0, 1]; the plotted y = 1 - S is non-decreasing and lies in [0, 1].
C8_SurvivalMonotoneBounded ==
    /\ \A c \in 1..Len(fits) :
        ~fits[c].raised =>
            /\ \A j \in 1..Len(fits[c].S) : InUnitInterval(fits[c].S[j])
            /\ \A j \in 1..(Len(fits[c].S) - 1) : Leq(fits[c].S[j + 1], fits[c].S[j])
    /\ values_df.status = "ok" =>
        /\ \A r \in 1..Len(values_df.rows) : InUnitInterval(values_df.rows[r].y)
        /\ \A r \in 1..(Len(values_df.rows) - 1) :
            values_df.rows[r + 1].product = values_df.rows[r].product
                => Leq(values_df.rows[r].y, values_df.rows[r + 1].y)

\* a cohort of three records whose curve drops twice, plotted
C8_Witness ==
    /\ values_df.status = "ok"
    /\ \E c \in 1..Len(fits) :
        /\ Len(fits[c].T) = 3
        /\ fits[c].S = <<Rat(1, 1), Rat(2, 3), Rat(2, 3), Rat(0, 1)>>
        /\ [i \in 1..4 |-> values_df.rows[Offset(c) + i].y] = <<Rat(0, 1), Rat(1, 3), Rat(1, 3), Rat(1, 1)>>

\* C9: every duration record of a row with a WonDate has the event flag and a duration >= 0,
\* and every record of a row without WonDate has no event flag.
C9_DurationRecords ==
    \A c \in 1..Len(fits) :
        \A i \in 1..Len(fits[c].cnt) :
            IF fits[c].cnt[i].WonIsNull
            THEN ~fits[c].E[i]
            ELSE fits[c].E[i] /\ fits[c].T[i] >= 0

\* the products of the input table, and those among them that select no row
TableProducts == {df[i].ProductId : i \in 1..Len(df)}
EmptyCohorts == {p \in TableProducts : \A i \in 1..Len(df) : ~PdEq(df[i].ProductId, p)}

\* C10: on a table with no rows, or with a cohort of zero observations, plot_winning_rate and
\* plot_conditional_winning_rate raise and return nothing.
C10_EmptyCohortFails ==
    (Len(df) = 0 \/ EmptyCohorts # {}) =>
        /\ WinningCalled => (values_df.status # "ok" /\ values_df.rows = <<>>)
        /\ CondCalled => (cond_value_df.status # "ok" /\ cond_value_df.rows = <<>>)

\* plot_winning_rate called on a table with no rows
C10_Witness ==
    /\ Len(df) = 0
    /\ values_df.status = "ValueError"

SetMax(S) == CHOOSE m \in S : \A x \in S : x <= m

\* the Kaplan-Meier estimate of a fitted cohort at time t weeks, t >= 0: the value at the
\* latest point of the timeline that is not after t (the curve is flat between its points)
SurvivalAt(fit, t) ==
    fit.S[SetMax({j \in 1..Len(fit.timeline) : fit.timeline[j] <= t})]

NoNegativeDuration(fit) == \A i \in 1..Len(fit.T) : fit.T[i] >= 0
MaxDuration(fit) == SetMax(SeqRange(fit.T))

\* C11: for a cohort with durations >= 0 and maximum duration D, values_df has one row for
\* each week 0..D, the row x = i holding 1 - S(i weeks); and the conditional series has the
\* same rows, the row x = i holding 1 - S(min(i + k, D) weeks) / S(i weeks).
C11_OneRowPerWeek ==
    /\ values_df.status = "ok" =>
        \A c \in 1..Len(fits) :
            NoNegativeDuration(fits[c]) =>
                /\ Len(fits[c].S) = MaxDuration(fits[c]) + 1
                /\ \A i \in 0..MaxDuration(fits[c]) :
                    LET row == values_df.rows[Offset(c) + i + 1]
                    IN  row.x = i /\ row.y = OneMinus(SurvivalAt(fits[c], i))
    /\ (CondReturned /\ k_weeks >= 0) =>
        \A c \in 1..Len(fits) :
            NoNegativeDuration(fits[c]) =>
                /\ Len(fits[c].S) = MaxDuration(fits[c]) + 1
                /\ \A i \in 0..MaxDuration(fits[c]) :
                    LET row == cond_value_df.rows[Offset(c) + i + 1]
                        ahead == PyMin(i + k_weeks, MaxDuration(fits[c]))
                    IN  /\ row.x = i
                        /\ row.y = OneMinus(Div(SurvivalAt(fits[c], ahead), SurvivalAt(fits[c], i)))

\* C13: in every row of the table returned by plot_winning_rate whose band has
\* lower <= S <= upper (S = 1 - y, lower = 1 - y_mix, upper = 1 - y_max), the column y_mix is
\* at most y and y is at most the column y_max.
C13_BoundsBracketEstimate ==
    values_df.status = "ok" =>
        \A i \in 1..Len(values_df.rows) :
            LET row == values_df.rows[i]
            IN  ( /\ Leq(OneMinus(row.y_mix), OneMinus(row.y))
                  /\ Leq(OneMinus(row.y), OneMinus(row.y_max)) )
                => (Leq(row.y_mix, row.y) /\ Leq(row.y, row.y_max))

\* C12: a call of build_product_plot or simulate_futures that returns leaves on its figure
\* only the histograms of the cohorts passed to it, and two calls of simulate_futures in a row
\* that return with equal inputs give equal Value Sample Sets, whatever was called before.
C12_CallsAreIndependent ==
    [][ncalls' = ncalls + 1 =>
        /\ plot_call'.status = "ok" => figures'[plot_call'.id] = plot_call'.options
        /\ ( /\ last.called /\ last.status = "ok"
             /\ plot_call'.fn = "simulate_futures" /\ last'.status = "ok"
             /\ last'.options = last.options
             /\ last'.deals_we_close = last.deals_we_close
             /\ last'.n_futures = last.n_futures )
           => last'.sets = last.sets]_vars

====
